---- MODULE Spec2Model ----
(***************************************************************************)
(* Model of backend/stylegen_service.py: the /profile handler              *)
(* (create_style_profile) and the functions it calls: ensure_openai_key,   *)
(* run_scraper, collect_samples, sanitize_text, summarize_corpus and       *)
(* generate_style_prompt.                                                  *)
(*                                                                         *)
(* Texts are sequences of one-character strings.  The request limits of    *)
(* the service (max_posts in 1..15, max_chars_per_post in 500..8000) are   *)
(* scaled down to 1..MaxPosts and MaxCharsChoices so that every branch of  *)
(* sanitize_text and of the selection loop is reached on short texts.      *)
(***************************************************************************)
EXTENDS Integers, Sequences, FiniteSets, TLC

VARIABLES
    text_in,       \* SpecNorm: the raw text handed to sanitize_text
    clamp,         \* SpecNorm: <<>> or <<[max_chars, text]>>, the call made and its result
    blog_dir,      \* BLOG_ROOT / host: [exists, files], files in rglob order
    env_key,       \* whether OPENAI_API_KEY is set in the process environment
    active,        \* the invocations of create_style_profile this run admits
    pc,            \* per invocation: the handler's position
    req,           \* per invocation: the validated StyleProfileRequest fields used
    files,         \* per invocation: collect_samples' sorted list of files
    idx,           \* per invocation: position of the for loop in files
    samples,       \* per invocation: collect_samples' list of PostSample
    metrics,       \* per invocation: <<>> or <<summarize_corpus(samples)>>
    response,      \* per invocation: <<>> or <<the generative service's response>>
    outcome,       \* per invocation: "none", "ok" or the error the handler ended with
    result,        \* per invocation: <<>> or <<StyleProfileResponse>>
    stages,        \* per invocation: the stage functions called so far, in call order
    scraper_exit   \* per invocation: "none", or how the scraper process ended

vars == <<text_in, clamp, blog_dir, env_key, active, pc, req, files, idx, samples,
          metrics, response, outcome, result, stages, scraper_exit>>

norm_vars == <<text_in, clamp>>
pipe_vars == <<blog_dir, env_key, active, pc, req, files, idx, samples,
               metrics, response, outcome, result, stages, scraper_exit>>

----------------------------------------------------------------------------
(* Bounds of the model *)

\* longest raw text handed to sanitize_text on its own
MaxRawLen == 7
\* most files in the corpus directory when the service starts
MaxFiles == 2
\* largest max_posts a request may carry (the service allows up to 15)
MaxPosts == 2
\* most samples handed to summarize_corpus on its own
MaxSamples == 3

\* the values of max_chars_per_post a request may carry (scaled down)
MaxCharsChoices == {4, 5}

Invs == {1, 2}

----------------------------------------------------------------------------
(* Characters *)

LowerLetters == <<"a","b","c","d","e","f","g","h","i","j","k","l","m",
                  "n","o","p","q","r","s","t","u","v","w","x","y","z">>
UpperLetters == <<"A","B","C","D","E","F","G","H","I","J","K","L","M",
                  "N","O","P","Q","R","S","T","U","V","W","X","Y","Z">>
Digits == {"0","1","2","3","4","5","6","7","8","9"}

Range(s) == {s[k] : k \in DOMAIN s}

\* the characters \s and str.strip() treat as whitespace
IsSpace(c) == c \in {" ", "\n", "\t", "\r"}

\* the characters of the class [a-zA-Z']
TokenChars == Range(LowerLetters) \cup Range(UpperLetters) \cup {"'"}
IsTokenChar(c) == c \in TokenChars

\* the characters of \w, which decide where \b holds
WordChars == Range(LowerLetters) \cup Range(UpperLetters) \cup Digits \cup {"_"}
IsWordChar(c) == c \in WordChars

\* str.lower() on one character
LowerChar(c) ==
    IF \E k \in DOMAIN UpperLetters : UpperLetters[k] = c
    THEN LowerLetters[CHOOSE k \in DOMAIN UpperLetters : UpperLetters[k] = c]
    ELSE c

Lower(s) == [k \in DOMAIN s |-> LowerChar(s[k])]

Min(a, b) == IF a <= b THEN a ELSE b
Max(a, b) == IF a >= b THEN a ELSE b

\* Python's s[:k]: a negative k counts from the end
PyPrefix(s, k) ==
    LET n == IF k >= 0 THEN Min(k, Len(s)) ELSE Max(Len(s) + k, 0)
    IN SubSeq(s, 1, n)

RECURSIVE RStrip(_)
RStrip(s) ==
    IF s = <<>> THEN s
    ELSE IF IsSpace(s[Len(s)]) THEN RStrip(SubSeq(s, 1, Len(s) - 1))
    ELSE s

RECURSIVE LStrip(_)
LStrip(s) ==
    IF s = <<>> THEN s
    ELSE IF IsSpace(s[1]) THEN LStrip(Tail(s))
    ELSE s

\* str.strip()
Strip(s) == LStrip(RStrip(s))

\* re.sub(r"\s+", " ", text): every maximal run of whitespace becomes one space
RECURSIVE CollapseWs(_)
CollapseWs(s) ==
    IF s = <<>> THEN <<>>
    ELSE IF IsSpace(s[1])
         THEN IF Len(s) >= 2 /\ IsSpace(s[2])
              THEN CollapseWs(Tail(s))
              ELSE <<" ">> \o CollapseWs(Tail(s))
         ELSE <<s[1]>> \o CollapseWs(Tail(s))

Ellipsis == <<".", ".", ".">>

\* sanitize_text without the room left for the marker
sanitize_text_NoRoom(text, max_chars) ==
    LET condensed == Strip(CollapseWs(text))
    IN IF Len(condensed) <= max_chars THEN condensed
       ELSE RStrip(PyPrefix(condensed, max_chars)) \o Ellipsis

sanitize_text(text, max_chars) ==
    LET condensed == Strip(CollapseWs(text))
    IN IF Len(condensed) <= max_chars THEN condensed
       ELSE RStrip(PyPrefix(condensed, max_chars - 3)) \o Ellipsis

----------------------------------------------------------------------------
(* The pipeline's idle state, shared by the specifications of single functions *)

NoReq == [max_posts |-> 1, max_chars |-> 4]

PipeIdle ==
    /\ blog_dir = [exists |-> FALSE, files |-> <<>>]
    /\ env_key = TRUE
    /\ active = {}
    /\ pc = [i \in Invs |-> "idle"]
    /\ req = [i \in Invs |-> NoReq]
    /\ files = [i \in Invs |-> <<>>]
    /\ idx = [i \in Invs |-> 0]
    /\ samples = [i \in Invs |-> <<>>]
    /\ metrics = [i \in Invs |-> <<>>]
    /\ response = [i \in Invs |-> <<>>]
    /\ outcome = [i \in Invs |-> "none"]
    /\ result = [i \in Invs |-> <<>>]
    /\ stages = [i \in Invs |-> <<>>]
    /\ scraper_exit = [i \in Invs |-> "none"]

----------------------------------------------------------------------------
(* SpecNorm: sanitize_text applied to every raw text over RawChars *)

RawChars == {"a", "b", " ", "\n"}

RECURSIVE SeqsUpTo(_, _)
SeqsUpTo(S, n) ==
    IF n = 0 THEN {<<>>}
    ELSE LET shorter == SeqsUpTo(S, n - 1)
         IN shorter \cup {Append(s, x) : s \in {t \in shorter : Len(t) = n - 1}, x \in S}

InitNorm ==
    /\ text_in \in SeqsUpTo(RawChars, MaxRawLen)
    /\ clamp = <<>>
    /\ PipeIdle

Sanitize(m) ==
    /\ clamp = <<>>
    /\ clamp' = <<[max_chars |-> m, text |-> sanitize_text(text_in, m)]>>
    /\ UNCHANGED text_in
    /\ UNCHANGED pipe_vars

NextNorm == \E m \in 4..MaxRawLen : Sanitize(m)

SpecNorm == InitNorm /\ [][NextNorm]_vars

----------------------------------------------------------------------------
(* The corpus directory *)

\* what path.read_text(encoding="utf-8") can meet in a file: bytes that do not
\* decode, whitespace only, a short text with excess whitespace, and a text
\* longer than every max_chars of MaxCharsChoices
Contents ==
    { [decodable |-> FALSE, text |-> <<>>],
      [decodable |-> TRUE,  text |-> <<"\n", " ">>],
      [decodable |-> TRUE,  text |-> <<"a", " ", "\n", "b">>],
      [decodable |-> TRUE,  text |-> <<"a", "b", " ", "c", "d", "e", "f">>] }

Mtimes == {1, 2}

\* the directories with n files; a file's path is its place in rglob's order
DirsOfLen(n) ==
    { [k \in 1..n |-> [path |-> k, mtime |-> f[k][1], content |-> f[k][2]]] :
        f \in [1..n -> Mtimes \X Contents] }

InitialDirs ==
    { [exists |-> FALSE, files |-> <<>>] } \cup
    { [exists |-> TRUE, files |-> fs] : fs \in UNION { DirsOfLen(n) : n \in 0..MaxFiles } }

\* what one run of the scraper process may leave in the directory: nothing new,
\* or one more file, written now or carrying an older modification time
ScraperEffects(dir) ==
    { dir } \cup
    { [exists |-> TRUE,
       files |-> Append(dir.files,
                        [path |-> Len(dir.files) + 1, mtime |-> t, content |-> c])] :
        t \in Mtimes \cup {3}, c \in Contents }

----------------------------------------------------------------------------
(* collect_samples *)

\* x placed in a list sorted by descending mtime, after every element that does
\* not sort after it: sorted(..., reverse=True) is stable
RECURSIVE InsertDesc(_, _)
InsertDesc(sorted, x) ==
    IF sorted = <<>> THEN <<x>>
    ELSE IF sorted[1].mtime >= x.mtime
         THEN <<sorted[1]>> \o InsertDesc(Tail(sorted), x)
         ELSE <<x>> \o sorted

\* the same for an ascending sort (reverse=True left out)
RECURSIVE InsertAsc(_, _)
InsertAsc(sorted, x) ==
    IF sorted = <<>> THEN <<x>>
    ELSE IF sorted[1].mtime <= x.mtime
         THEN <<sorted[1]>> \o InsertAsc(Tail(sorted), x)
         ELSE <<x>> \o sorted

RECURSIVE SortedAscending(_)
SortedAscending(fs) ==
    IF fs = <<>> THEN <<>>
    ELSE InsertAsc(SortedAscending(SubSeq(fs, 1, Len(fs) - 1)), fs[Len(fs)])

\* sorted(files, key=lambda p: p.stat().st_mtime, reverse=True)
RECURSIVE SortedByMtime(_)
SortedByMtime(fs) ==
    IF fs = <<>> THEN <<>>
    ELSE InsertDesc(SortedByMtime(SubSeq(fs, 1, Len(fs) - 1)), fs[Len(fs)])

\* the loop's test that ends it, off by one
EnoughSamples_Off(collected, max_posts) == Len(collected) > max_posts

\* if len(samples) >= max_posts: break
EnoughSamples(collected, max_posts) == Len(collected) >= max_posts

\* PostSample(title, text, path); the title is a function of the path alone
\* (path.name.replace("-", " ").title()) and is not carried
PostSample(f, snippet) == [text |-> snippet, path |-> f.path]

----------------------------------------------------------------------------
(* create_style_profile, one action per step of the handler *)

\* the request body passed validation: the handler starts.  HttpUrl admits only
\* an http or https scheme with a host, so the handler's two HTTP 400 tests on
\* the parsed URL never raise and have no action here
Request(i, max_posts, max_chars) ==
    /\ i \in active
    /\ pc[i] = "idle"
    /\ req' = [req EXCEPT ![i] = [max_posts |-> max_posts, max_chars |-> max_chars]]
    /\ pc' = [pc EXCEPT ![i] = "ensure_key"]
    /\ UNCHANGED <<blog_dir, env_key, active, files, idx, samples, metrics, response,
                   outcome, result, stages, scraper_exit>>
    /\ UNCHANGED norm_vars

\* ensure_openai_key that lets a missing key pass
ensure_openai_key_Unchecked(i) ==
    /\ pc[i] = "ensure_key"
    /\ pc' = [pc EXCEPT ![i] = "scrape"]
    /\ UNCHANGED <<blog_dir, env_key, active, req, files, idx, samples, metrics, response,
                   outcome, result, stages, scraper_exit>>
    /\ UNCHANGED norm_vars

ensure_openai_key(i) ==
    /\ pc[i] = "ensure_key"
    /\ IF env_key
       THEN /\ pc' = [pc EXCEPT ![i] = "scrape"]
            /\ UNCHANGED outcome
       ELSE /\ pc' = [pc EXCEPT ![i] = "done"]
            /\ outcome' = [outcome EXCEPT ![i] = "ConfigurationMissing"]
    /\ UNCHANGED <<blog_dir, env_key, active, req, files, idx, samples, metrics, response,
                   result, stages, scraper_exit>>
    /\ UNCHANGED norm_vars

\* run_scraper with check=True left out: a failed scrape goes unnoticed
run_scraper_Unchecked(i) ==
    /\ pc[i] = "scrape"
    /\ \E exit \in {"ok", "failed"}, dir \in ScraperEffects(blog_dir) :
        /\ blog_dir' = dir
        /\ scraper_exit' = [scraper_exit EXCEPT ![i] = exit]
        /\ stages' = [stages EXCEPT ![i] = Append(@, "scraper")]
        /\ pc' = [pc EXCEPT ![i] = "collect"]
        /\ UNCHANGED outcome
    /\ UNCHANGED <<env_key, active, req, files, idx, samples, metrics, response, result>>
    /\ UNCHANGED norm_vars

\* run_scraper: subprocess.run waits for the scraper process, modelled as one
\* step.  A non-zero exit (CalledProcessError) becomes HTTP 500 "Scraper
\* failed"; a process that cannot be started ("unlaunched": OSError) is not
\* caught and writes nothing
run_scraper(i) ==
    /\ pc[i] = "scrape"
    /\ \E exit \in {"ok", "failed", "unlaunched"}, dir \in ScraperEffects(blog_dir) :
        /\ exit = "unlaunched" => dir = blog_dir
        /\ blog_dir' = dir
        /\ scraper_exit' = [scraper_exit EXCEPT ![i] = exit]
        /\ stages' = [stages EXCEPT ![i] = Append(@, "scraper")]
        /\ IF exit = "ok"
           THEN /\ pc' = [pc EXCEPT ![i] = "collect"]
                /\ UNCHANGED outcome
           ELSE /\ pc' = [pc EXCEPT ![i] = "done"]
                /\ outcome' = [outcome EXCEPT ![i] =
                     IF exit = "failed" THEN "ScraperFailed" ELSE "InternalError"]
    /\ UNCHANGED <<env_key, active, req, files, idx, samples, metrics, response, result>>
    /\ UNCHANGED norm_vars

\* collect_samples with one list of samples shared by all invocations
collect_samples_enter_Shared(i) ==
    /\ pc[i] = "collect"
    /\ stages' = [stages EXCEPT ![i] = Append(@, "select")]
    /\ samples' = [j \in Invs |-> <<>>]
    /\ IF ~blog_dir.exists
       THEN /\ pc' = [pc EXCEPT ![i] = "check_samples"]
            /\ UNCHANGED <<files, idx>>
       ELSE /\ files' = [files EXCEPT ![i] = SortedByMtime(blog_dir.files)]
            /\ idx' = [idx EXCEPT ![i] = 1]
            /\ pc' = [pc EXCEPT ![i] = "loop"]
    /\ UNCHANGED <<blog_dir, env_key, active, req, metrics, response, outcome, result,
                   scraper_exit>>
    /\ UNCHANGED norm_vars

\* collect_samples up to the loop: the directory test, the enumeration and the sort
collect_samples_enter(i) ==
    /\ pc[i] = "collect"
    /\ stages' = [stages EXCEPT ![i] = Append(@, "select")]
    /\ samples' = [samples EXCEPT ![i] = <<>>]
    /\ IF ~blog_dir.exists
       THEN /\ pc' = [pc EXCEPT ![i] = "check_samples"]
            /\ UNCHANGED <<files, idx>>
       ELSE /\ files' = [files EXCEPT ![i] = SortedByMtime(blog_dir.files)]
            /\ idx' = [idx EXCEPT ![i] = 1]
            /\ pc' = [pc EXCEPT ![i] = "loop"]
    /\ UNCHANGED <<blog_dir, env_key, active, req, metrics, response, outcome, result,
                   scraper_exit>>
    /\ UNCHANGED norm_vars

\* the loop with UnicodeDecodeError not caught
collect_samples_loop_NoCatch(i) ==
    /\ pc[i] = "loop"
    /\ IF idx[i] > Len(files[i])
       THEN /\ pc' = [pc EXCEPT ![i] = "check_samples"]
            /\ UNCHANGED <<idx, samples, outcome>>
       ELSE LET f == files[i][idx[i]]
                snippet == sanitize_text(f.content.text, req[i].max_chars)
            IN IF ~f.content.decodable
               THEN /\ pc' = [pc EXCEPT ![i] = "done"]
                    /\ outcome' = [outcome EXCEPT ![i] = "InternalError"]
                    /\ UNCHANGED <<idx, samples>>
               ELSE IF Strip(snippet) = <<>>
               THEN /\ idx' = [idx EXCEPT ![i] = @ + 1]
                    /\ UNCHANGED <<pc, samples, outcome>>
               ELSE LET collected == Append(samples[i], PostSample(f, snippet))
                    IN /\ samples' = [samples EXCEPT ![i] = collected]
                       /\ UNCHANGED outcome
                       /\ IF EnoughSamples(collected, req[i].max_posts)
                          THEN /\ pc' = [pc EXCEPT ![i] = "check_samples"]
                               /\ UNCHANGED idx
                          ELSE /\ idx' = [idx EXCEPT ![i] = @ + 1]
                               /\ UNCHANGED pc
    /\ UNCHANGED <<blog_dir, env_key, active, req, files, metrics, response, result,
                   stages, scraper_exit>>
    /\ UNCHANGED norm_vars

\* one pass of "for path in files", or its end when the list is used up
collect_samples_loop(i) ==
    /\ pc[i] = "loop"
    /\ IF idx[i] > Len(files[i])
       THEN /\ pc' = [pc EXCEPT ![i] = "check_samples"]
            /\ UNCHANGED <<idx, samples>>
       ELSE LET f == files[i][idx[i]]
                snippet == sanitize_text(f.content.text, req[i].max_chars)
            IN IF ~f.content.decodable \/ Strip(snippet) = <<>>
               THEN /\ idx' = [idx EXCEPT ![i] = @ + 1]
                    /\ UNCHANGED <<pc, samples>>
               ELSE LET collected == Append(samples[i], PostSample(f, snippet))
                    IN /\ samples' = [samples EXCEPT ![i] = collected]
                       /\ IF EnoughSamples(collected, req[i].max_posts)
                          THEN /\ pc' = [pc EXCEPT ![i] = "check_samples"]
                               /\ UNCHANGED idx
                          ELSE /\ idx' = [idx EXCEPT ![i] = @ + 1]
                               /\ UNCHANGED pc
    /\ UNCHANGED <<blog_dir, env_key, active, req, files, metrics, response, outcome,
                   result, stages, scraper_exit>>
    /\ UNCHANGED norm_vars

\* "if not samples" left out: an empty selection goes on to the next stage
check_samples_Unchecked(i) ==
    /\ pc[i] = "check_samples"
    /\ pc' = [pc EXCEPT ![i] = "summarize"]
    /\ UNCHANGED <<blog_dir, env_key, active, req, files, idx, samples, metrics, response,
                   outcome, result, stages, scraper_exit>>
    /\ UNCHANGED norm_vars

\* if not samples: raise HTTPException(404, "No posts found under blogs/{host}")
check_samples(i) ==
    /\ pc[i] = "check_samples"
    /\ IF samples[i] = <<>>
       THEN /\ pc' = [pc EXCEPT ![i] = "done"]
            /\ outcome' = [outcome EXCEPT ![i] = "NoSamplesFound"]
       ELSE /\ pc' = [pc EXCEPT ![i] = "summarize"]
            /\ UNCHANGED outcome
    /\ UNCHANGED <<blog_dir, env_key, active, req, files, idx, samples, metrics, response,
                   result, stages, scraper_exit>>
    /\ UNCHANGED norm_vars

----------------------------------------------------------------------------
(* summarize_corpus *)

\* " ".join(parts)
RECURSIVE JoinWithSpace(_)
JoinWithSpace(parts) ==
    IF parts = <<>> THEN <<>>
    ELSE IF Len(parts) = 1 THEN parts[1]
    ELSE parts[1] \o <<" ">> \o JoinWithSpace(Tail(parts))

IsTerminator(c) == c \in {".", "!", "?"}

\* the least element of a non-empty set of numbers
Least(S) == CHOOSE x \in S : \A y \in S : x <= y

\* re.split(r"[.!?]+", text), from position p on; the empty pieces a run of
\* terminators leaves here are dropped with the other empty fragments
RECURSIVE SplitSentences(_, _)
SplitSentences(s, p) ==
    LET stops == {q \in p..Len(s) : IsTerminator(s[q])}
    IN IF stops = {} THEN <<SubSeq(s, p, Len(s))>>
       ELSE <<SubSeq(s, p, Least(stops) - 1)>> \o SplitSentences(s, Least(stops) + 1)

\* len(sentence.split())
WordCount(s) ==
    Cardinality({k \in DOMAIN s : ~IsSpace(s[k]) /\ (k = 1 \/ IsSpace(s[k - 1]))})

RECURSIVE SumWordCounts(_)
SumWordCounts(ss) ==
    IF ss = <<>> THEN 0 ELSE WordCount(ss[1]) + SumWordCounts(Tail(ss))

\* whether \b holds just before position p (p = Len(s) + 1: at the end)
WordAt(s, p) == p \in DOMAIN s /\ IsWordChar(s[p])
Boundary(s, p) == WordAt(s, p - 1) # WordAt(s, p)

\* the end of the longest run of [a-zA-Z'] starting at p (p - 1: none)
RECURSIVE RunEnd(_, _)
RunEnd(s, p) ==
    IF p \in DOMAIN s /\ IsTokenChar(s[p]) THEN RunEnd(s, p + 1) ELSE p - 1

\* the greedy run given back character by character until \b holds after it
RECURSIVE BackToBoundary(_, _, _)
BackToBoundary(s, p, e) ==
    IF e < p THEN p - 1
    ELSE IF Boundary(s, e + 1) THEN e
    ELSE BackToBoundary(s, p, e - 1)

\* the end of the match of \b[a-zA-Z']+\b at p (p - 1: no match)
MatchEnd(s, p) ==
    IF Boundary(s, p) THEN BackToBoundary(s, p, RunEnd(s, p)) ELSE p - 1

\* re.findall(r"\b[a-zA-Z']+\b", s), scanning from p: the leftmost match, then
\* the matches after its end
RECURSIVE FindAll(_, _)
FindAll(s, p) ==
    LET starts == {q \in p..Len(s) : IsTokenChar(s[q]) /\ MatchEnd(s, q) >= q}
    IN IF starts = {} THEN <<>>
       ELSE LET q == Least(starts)
                e == MatchEnd(s, q)
            IN <<SubSeq(s, q, e)>> \o FindAll(s, e + 1)

stopwords ==
    { <<"t","h","e">>,
      <<"a","n","d">>,
      <<"o","f">>,
      <<"t","o">>,
      <<"i","n">>,
      <<"a">>,
      <<"i","s">>,
      <<"f","o","r">>,
      <<"o","n">>,
      <<"w","i","t","h">>,
      <<"t","h","a","t">>,
      <<"a","s">>,
      <<"i","t">>,
      <<"t","h","i","s">>,
      <<"a","r","e">>,
      <<"w","a","s">>,
      <<"b","e">>,
      <<"o","r">>,
      <<"b","y">>,
      <<"f","r","o","m">>,
      <<"a","n">> }

\* the keyword test with the length limit one too low
IsKeyword_Short(word) == word \notin stopwords /\ Len(word) > 2

\* word not in stopwords and len(word) > 3
IsKeyword(word) == word \notin stopwords /\ Len(word) > 3

\* Counter(words): the distinct words in the order of their first occurrence ...
RECURSIVE CounterKeys(_, _)
CounterKeys(words, seen) ==
    IF words = <<>> THEN seen
    ELSE IF words[1] \in Range(seen) THEN CounterKeys(Tail(words), seen)
    ELSE CounterKeys(Tail(words), Append(seen, words[1]))

\* ... each with the number of its occurrences
CounterCount(words, w) == Cardinality({k \in DOMAIN words : words[k] = w})

\* one item placed in a list of [word, count] sorted by descending count, after
\* every item that does not sort after it
RECURSIVE InsertByCount(_, _)
InsertByCount(sorted, x) ==
    IF sorted = <<>> THEN <<x>>
    ELSE IF sorted[1].count >= x.count
         THEN <<sorted[1]>> \o InsertByCount(Tail(sorted), x)
         ELSE <<x>> \o sorted

RECURSIVE SortedByCount(_)
SortedByCount(items) ==
    IF items = <<>> THEN <<>>
    ELSE InsertByCount(SortedByCount(SubSeq(items, 1, Len(items) - 1)), items[Len(items)])

\* the number of keywords summarize_corpus asks most_common for
TopKeywordCount == 15

\* Counter(words).most_common(n): heapq.nlargest(n, items, key=count), which gives
\* sorted(items, key=count, reverse=True)[:n], a stable sort
most_common(words, n) ==
    LET keys == CounterKeys(words, <<>>)
        items == [k \in DOMAIN keys |-> [word |-> keys[k], count |-> CounterCount(words, keys[k])]]
    IN PyPrefix(SortedByCount(items), n)

\* summarize_corpus; avg_sentence_length is kept as the quotient's two terms
\* (words, sentences), before the division and round(, 2)
summarize_corpus(smpls) ==
    LET combined_text == JoinWithSpace([k \in DOMAIN smpls |-> smpls[k].text])
        fragments == SplitSentences(combined_text, 1)
        sentences == SelectSeq([k \in DOMAIN fragments |-> Strip(fragments[k])],
                               LAMBDA f : f # <<>>)
        tokens == FindAll(Lower(combined_text), 1)
        keywords == SelectSeq(tokens, IsKeyword)
        top == most_common(keywords, TopKeywordCount)
    IN [avg_sentence_length |-> [words |-> SumWordCounts(sentences),
                                 sentences |-> Len(sentences)],
        top_keywords |-> [k \in DOMAIN top |-> top[k].word],
        sample_count |-> Len(smpls),
        total_tokens |-> Len(tokens)]

\* metrics = summarize_corpus(samples)
summarize(i) ==
    /\ pc[i] = "summarize"
    /\ stages' = [stages EXCEPT ![i] = Append(@, "summarize")]
    /\ metrics' = [metrics EXCEPT ![i] = <<summarize_corpus(samples[i])>>]
    /\ pc' = [pc EXCEPT ![i] = "generate"]
    /\ UNCHANGED <<blog_dir, env_key, active, req, files, idx, samples, response, outcome,
                   result, scraper_exit>>
    /\ UNCHANGED norm_vars

----------------------------------------------------------------------------
(* generate_style_prompt *)

\* an attribute of the response object: absent, None, or holding a value
Missing == [kind |-> "missing", val |-> <<>>]
Null == [kind |-> "null", val |-> <<>>]
Str(s) == [kind |-> "value", val |-> s]

\* a message object with the given content attribute
Message(content) == [kind |-> "value", content |-> content]
NoMessage(kind) == [kind |-> kind, content |-> Missing]

Messages ==
    { NoMessage("missing"), NoMessage("null"),
      Message(Missing), Message(Null),
      Message(Str(<<" ", "o", "k", "\n">>)), Message(Str(<<"o", "k">>)) }

\* the responses client.chat.completions.create may return: the choices
\* attribute absent, None, an empty list, or a list of one choice
Responses ==
    { [kind |-> "missing", choices |-> <<>>],
      [kind |-> "null", choices |-> <<>>],
      [kind |-> "value", choices |-> <<>>] } \cup
    { [kind |-> "value", choices |-> <<[message |-> m]>>] : m \in Messages }

\* response.choices[0].message.content.strip(), evaluated left to right: the
\* exception it raises ("none": it returns text)
Extract(r) ==
    IF r.kind = "missing" THEN [raised |-> "AttributeError", text |-> <<>>]
    ELSE IF r.kind = "null" THEN [raised |-> "TypeError", text |-> <<>>]
    ELSE IF r.choices = <<>> THEN [raised |-> "IndexError", text |-> <<>>]
    ELSE LET m == r.choices[1].message
         IN IF m.kind = "missing" THEN [raised |-> "AttributeError", text |-> <<>>]
            ELSE IF m.kind = "null" THEN [raised |-> "AttributeError", text |-> <<>>]
            ELSE IF m.content.kind = "missing" THEN [raised |-> "AttributeError", text |-> <<>>]
            ELSE IF m.content.kind = "null" THEN [raised |-> "AttributeError", text |-> <<>>]
            ELSE [raised |-> "none", text |-> Strip(m.content.val)]

\* generate_style_prompt and the handler's return.  The call to the service
\* returns a response or raises; except (AttributeError, IndexError) turns a
\* failed extraction into HTTP 502, any other exception leaves the handler as it is
generate_style_prompt(i) ==
    /\ pc[i] = "generate"
    /\ stages' = [stages EXCEPT ![i] = Append(@, "generate")]
    /\ pc' = [pc EXCEPT ![i] = "done"]
    /\ \/ /\ outcome' = [outcome EXCEPT ![i] = "InternalError"]
          /\ UNCHANGED <<response, result>>
       \/ \E r \in Responses :
            LET x == Extract(r)
            IN /\ response' = [response EXCEPT ![i] = <<r>>]
               /\ IF x.raised = "none"
                  THEN /\ outcome' = [outcome EXCEPT ![i] = "ok"]
                       /\ result' = [result EXCEPT ![i] =
                            <<[style_prompt |-> x.text,
                               metrics |-> metrics[i][1],
                               samples_used |-> [k \in DOMAIN samples[i] |-> samples[i][k].path]]>>]
                  ELSE /\ outcome' = [outcome EXCEPT ![i] =
                            IF x.raised \in {"AttributeError", "IndexError"}
                            THEN "GenerationFailure" ELSE "InternalError"]
                       /\ UNCHANGED result
    /\ UNCHANGED <<blog_dir, env_key, active, req, files, idx, samples, metrics, scraper_exit>>
    /\ UNCHANGED norm_vars

----------------------------------------------------------------------------
(* Spec: one invocation of the handler, from every corpus directory *)

Init ==
    /\ text_in = <<>>
    /\ clamp = <<>>
    /\ blog_dir \in InitialDirs
    /\ env_key \in BOOLEAN
    /\ active = {1}
    /\ pc = [i \in Invs |-> "idle"]
    /\ req = [i \in Invs |-> NoReq]
    /\ files = [i \in Invs |-> <<>>]
    /\ idx = [i \in Invs |-> 0]
    /\ samples = [i \in Invs |-> <<>>]
    /\ metrics = [i \in Invs |-> <<>>]
    /\ response = [i \in Invs |-> <<>>]
    /\ outcome = [i \in Invs |-> "none"]
    /\ result = [i \in Invs |-> <<>>]
    /\ stages = [i \in Invs |-> <<>>]
    /\ scraper_exit = [i \in Invs |-> "none"]

\* the steps of the handler after the request is accepted
Handler(i) ==
        \/ ensure_openai_key(i)
        \/ run_scraper(i)
        \/ collect_samples_enter(i)
        \/ collect_samples_loop(i)
        \/ check_samples(i)
        \/ summarize(i)
        \/ generate_style_prompt(i)

Next ==
    \E i \in Invs :
        \/ \E n \in 1..MaxPosts, m \in MaxCharsChoices : Request(i, n, m)
        \/ Handler(i)

Spec == Init /\ [][Next]_vars

----------------------------------------------------------------------------
(* SpecConc: two invocations for the same host at once *)

InitConc ==
    /\ text_in = <<>>
    /\ clamp = <<>>
    /\ blog_dir \in {d \in InitialDirs : d.files = <<>>}
    /\ env_key = TRUE
    /\ active = Invs
    /\ pc = [i \in Invs |-> "idle"]
    /\ req = [i \in Invs |-> NoReq]
    /\ files = [i \in Invs |-> <<>>]
    /\ idx = [i \in Invs |-> 0]
    /\ samples = [i \in Invs |-> <<>>]
    /\ metrics = [i \in Invs |-> <<>>]
    /\ response = [i \in Invs |-> <<>>]
    /\ outcome = [i \in Invs |-> "none"]
    /\ result = [i \in Invs |-> <<>>]
    /\ stages = [i \in Invs |-> <<>>]
    /\ scraper_exit = [i \in Invs |-> "none"]

\* both requests ask for the most posts and the longest excerpts
NextConc ==
    \E i \in Invs :
        \/ Request(i, MaxPosts, 5)
        \/ Handler(i)

SpecConc == InitConc /\ [][NextConc]_vars

----------------------------------------------------------------------------
(* SpecSum: summarize_corpus applied to sequences of sample texts *)

\* "The cat sat with that river. River runs!"
TextRiver ==
    <<
        "T","h","e"," ","c","a","t"," ","s","a","t"," ","w","i","t","h"," ","t","h","a",
        "t"," ","r","i","v","e","r","."," ","R","i","v","e","r"," ","r","u","n","s","!" >>

\* "Don't stop; stone and river, stone?"
TextStone ==
    <<
        "D","o","n","'","t"," ","s","t","o","p",";"," ","s","t","o","n","e"," ","a","n",
        "d"," ","r","i","v","e","r",","," ","s","t","o","n","e","?" >>

\* "abc1 l'eau 'tis the_end rock'n'roll from"
TextEdges ==
    <<
        "a","b","c","1"," ","l","'","e","a","u"," ","'","t","i","s"," ","t","h","e","_",
        "e","n","d"," ","r","o","c","k","'","n","'","r","o","l","l"," ","f","r","o","m" >>

\* "alpha bravo charlie delta echo foxtrot golf hotel india juliet kilo lima mike november oscar papa quebec"
TextMany ==
    <<
        "a","l","p","h","a"," ","b","r","a","v","o"," ","c","h","a","r","l","i","e"," ",
        "d","e","l","t","a"," ","e","c","h","o"," ","f","o","x","t","r","o","t"," ","g",
        "o","l","f"," ","h","o","t","e","l"," ","i","n","d","i","a"," ","j","u","l","i",
        "e","t"," ","k","i","l","o"," ","l","i","m","a"," ","m","i","k","e"," ","n","o",
        "v","e","m","b","e","r"," ","o","s","c","a","r"," ","p","a","p","a"," ","q","u",
        "e","b","e","c" >>

\* "Quebec papa quebec."
TextLate ==
    <<
        "Q","u","e","b","e","c"," ","p","a","p","a"," ","q","u","e","b","e","c","." >>

SampleTexts == {TextRiver, TextStone, TextEdges, TextMany, TextLate}

SampleSeqs ==
    UNION { { [k \in 1..n |-> [text |-> t[k], path |-> k]] : t \in [1..n -> SampleTexts] } :
            n \in 0..MaxSamples }

InitSum ==
    /\ text_in = <<>>
    /\ clamp = <<>>
    /\ blog_dir = [exists |-> TRUE, files |-> <<>>]
    /\ env_key = TRUE
    /\ active = {1}
    /\ pc = [i \in Invs |-> IF i = 1 THEN "summarize" ELSE "idle"]
    /\ req = [i \in Invs |-> NoReq]
    /\ files = [i \in Invs |-> <<>>]
    /\ idx = [i \in Invs |-> 0]
    /\ samples \in {[i \in Invs |-> IF i = 1 THEN ss ELSE <<>>] : ss \in SampleSeqs}
    /\ metrics = [i \in Invs |-> <<>>]
    /\ response = [i \in Invs |-> <<>>]
    /\ outcome = [i \in Invs |-> "none"]
    /\ result = [i \in Invs |-> <<>>]
    /\ stages = [i \in Invs |-> <<>>]
    /\ scraper_exit = [i \in Invs |-> "none"]

NextSum == summarize(1)

SpecSum == InitSum /\ [][NextSum]_vars

----------------------------------------------------------------------------
(* C1 *)

Condensed(text) == Strip(CollapseWs(text))

EndsWithEllipsis(s) == Len(s) >= 3 /\ SubSeq(s, Len(s) - 2, Len(s)) = Ellipsis

\* C1 as stated: for every raw text and max_chars >= 4 the result of
\* sanitize_text is at most max_chars long, and when the condensed text is
\* longer than max_chars the result ends with "..." and is exactly max_chars long.
C1_ExactLength ==
    \A k \in DOMAIN clamp :
        LET m == clamp[k].max_chars
            out == clamp[k].text
        IN /\ Len(out) <= m
           /\ Len(Condensed(text_in)) > m => EndsWithEllipsis(out) /\ Len(out) = m

\* C1 amended: the result is at most max_chars long; when the condensed text is
\* longer than max_chars the result ends with "..." and its length is max_chars,
\* or max_chars - 1 when the last character kept by the cut is a space.
C1_LengthBound ==
    \A k \in DOMAIN clamp :
        LET m == clamp[k].max_chars
            out == clamp[k].text
            c == Condensed(text_in)
        IN /\ Len(out) <= m
           /\ Len(c) > m =>
                /\ EndsWithEllipsis(out)
                /\ Len(out) = IF c[m - 3] = " " THEN m - 1 ELSE m

\* a truncation whose cut falls on a space
C1_Witness ==
    \E k \in DOMAIN clamp :
        /\ Len(Condensed(text_in)) > clamp[k].max_chars
        /\ Len(clamp[k].text) = clamp[k].max_chars - 1

----------------------------------------------------------------------------
(* Vocabulary of the claims about the pipeline *)

\* a file collect_samples can use with the given max_chars
Usable(f, m) == f.content.decodable /\ sanitize_text(f.content.text, m) # <<>>

\* collect_samples was called and has returned
SelectReturned(i) ==
    /\ "select" \in Range(stages[i])
    /\ pc[i] \in {"check_samples", "summarize", "generate", "done"}
    /\ outcome[i] \in {"none", "ok", "NoSamplesFound", "GenerationFailure"}

IsPrefix(s, t) == Len(s) <= Len(t) /\ SubSeq(t, 1, Len(s)) = s

\* the stages of the pipeline proper called so far
CoreStages(i) == SelectSeq(stages[i], LAMBDA st : st # "scraper")

----------------------------------------------------------------------------
(* C2 *)

\* C2: once collect_samples has returned, the samples are min(max_posts, number
\* of usable files) in number, each is the normalized text of a distinct usable
\* file, they are in non-increasing order of modification time, and no usable
\* file left out is more recent than a returned one.
C2_SelectsMostRecentUsable ==
    \A i \in active :
        SelectReturned(i) =>
            LET m == req[i].max_chars
                fs == blog_dir.files
                U == {k \in DOMAIN fs : Usable(fs[k], m)}
                S == samples[i]
            IN /\ Len(S) = Min(req[i].max_posts, Cardinality(U))
               /\ \A k \in DOMAIN S :
                    /\ S[k].path \in U
                    /\ S[k].text = sanitize_text(fs[S[k].path].content.text, m)
               /\ \A j, k \in DOMAIN S :
                    j < k => /\ S[j].path # S[k].path
                             /\ fs[S[j].path].mtime >= fs[S[k].path].mtime
               /\ \A u \in U \ {S[k].path : k \in DOMAIN S} :
                    \A k \in DOMAIN S : fs[S[k].path].mtime >= fs[u].mtime

\* max_posts samples returned, an unusable file more recent than one of them
\* skipped, and an older usable file left out
C2_Witness ==
    \E i \in active :
        /\ SelectReturned(i)
        /\ Len(samples[i]) = req[i].max_posts
        /\ \E g \in DOMAIN blog_dir.files, k \in DOMAIN samples[i] :
            /\ ~Usable(blog_dir.files[g], req[i].max_chars)
            /\ blog_dir.files[g].mtime > blog_dir.files[samples[i][k].path].mtime
        /\ \E u \in DOMAIN blog_dir.files :
            /\ Usable(blog_dir.files[u], req[i].max_chars)
            /\ \A k \in DOMAIN samples[i] : samples[i][k].path # u

----------------------------------------------------------------------------
(* C3 *)

\* C3: in every state the samples collected so far are at most max_posts, each
\* sample's text is at most max_chars_per_post long, the metrics once computed
\* carry sample_count = number of samples, and a success returns as many sample
\* identifiers.
C3_SampleBounds ==
    \A i \in Invs :
        /\ Len(samples[i]) <= req[i].max_posts
        /\ \A k \in DOMAIN samples[i] : Len(samples[i][k].text) <= req[i].max_chars
        /\ \A k \in DOMAIN metrics[i] : metrics[i][k].sample_count = Len(samples[i])
        /\ \A k \in DOMAIN result[i] :
            /\ result[i][k].metrics.sample_count = Len(samples[i])
            /\ Len(result[i][k].samples_used) = Len(samples[i])

\* a success on two samples, one of them truncated to exactly max_chars
C3_Witness ==
    \E i \in active :
        /\ result[i] # <<>>
        /\ Len(samples[i]) = 2
        /\ req[i].max_posts = 2
        /\ \E k \in DOMAIN samples[i] :
            /\ Len(samples[i][k].text) = req[i].max_chars
            /\ EndsWithEllipsis(samples[i][k].text)

----------------------------------------------------------------------------
(* C4 *)

NoUsableFile(m) ==
    \/ ~blog_dir.exists
    \/ \A k \in DOMAIN blog_dir.files : ~Usable(blog_dir.files[k], m)

\* C4: when the directory does not exist, is empty or holds only undecodable or
\* empty files, collect_samples once called collects nothing and raises
\* nothing, and the invocation ends with NoSamplesFound.
C4_EmptyCorpusIsNoSamplesFound ==
    \A i \in active :
        ("select" \in Range(stages[i]) /\ NoUsableFile(req[i].max_chars)) =>
            /\ samples[i] = <<>>
            /\ pc[i] \in {"loop", "check_samples", "done"}
            /\ outcome[i] = IF pc[i] = "done" THEN "NoSamplesFound" ELSE "none"
            /\ result[i] = <<>>

\* NoSamplesFound on a directory holding an undecodable and a whitespace-only file
C4_Witness ==
    \E i \in active :
        /\ pc[i] = "done"
        /\ outcome[i] = "NoSamplesFound"
        /\ NoUsableFile(req[i].max_chars)
        /\ \E k \in DOMAIN blog_dir.files : ~blog_dir.files[k].content.decodable
        /\ \E k \in DOMAIN blog_dir.files : blog_dir.files[k].content.decodable

----------------------------------------------------------------------------
(* C5 *)

\* the response holds a first choice with a message with text content
HasExtractableText(r) ==
    /\ r.kind = "value"
    /\ r.choices # <<>>
    /\ r.choices[1].message.kind = "value"
    /\ r.choices[1].message.content.kind = "value"

\* C5: every response without an extractable first-choice text (no choices, a
\* missing or null choices field, a missing or null message or content) ends the
\* invocation with GenerationFailure and no result; every other response gives
\* the first choice's content, stripped.
C5_MalformedResponseIsGenerationFailure ==
    \A i \in active :
        \A k \in DOMAIN response[i] :
            LET r == response[i][k]
            IN IF HasExtractableText(r)
               THEN /\ outcome[i] = "ok"
                    /\ \A n \in DOMAIN result[i] :
                        result[i][n].style_prompt = Strip(r.choices[1].message.content.val)
               ELSE /\ outcome[i] = "GenerationFailure"
                    /\ result[i] = <<>>

----------------------------------------------------------------------------
(* C6 *)

Failures == {"ConfigurationMissing", "ScraperFailed", "NoSamplesFound",
             "GenerationFailure", "InternalError"}

\* C6: the stages called so far are a prefix of selector, summarizer, assembler
\* (each at most once, in that order); after NoSamplesFound only the selector
\* has run; the generative service is called only with samples; a failure ends
\* the invocation without a result, and only a success carries one.
C6_StagesInOrder ==
    \A i \in Invs :
        /\ IsPrefix(CoreStages(i), <<"select", "summarize", "generate">>)
        /\ outcome[i] = "NoSamplesFound" => CoreStages(i) = <<"select">>
        /\ "summarize" \in Range(stages[i]) => samples[i] # <<>>
        /\ "generate" \in Range(stages[i]) => samples[i] # <<>> /\ metrics[i] # <<>>
        /\ outcome[i] \in Failures => pc[i] = "done" /\ result[i] = <<>>
        /\ pc[i] = "done" => outcome[i] # "none"
        /\ outcome[i] = "ok" <=>
             (result[i] # <<>> /\ CoreStages(i) = <<"select", "summarize", "generate">>)

\* all three stages ran and the last one failed
C6_Witness ==
    \E i \in active :
        /\ pc[i] = "done"
        /\ outcome[i] = "GenerationFailure"
        /\ CoreStages(i) = <<"select", "summarize", "generate">>

----------------------------------------------------------------------------
(* C7 *)

\* C7: without the credential an invocation that has started has launched no
\* scraper, read no file, called no stage and no generative service, and ends
\* with ConfigurationMissing.
C7_NoWorkWithoutKey ==
    \A i \in active :
        (~env_key /\ pc[i] # "idle") =>
            /\ pc[i] \in {"ensure_key", "done"}
            /\ stages[i] = <<>>
            /\ scraper_exit[i] = "none"
            /\ files[i] = <<>> /\ samples[i] = <<>>
            /\ response[i] = <<>> /\ result[i] = <<>>
            /\ pc[i] = "done" => outcome[i] = "ConfigurationMissing"

\* an invocation ended by the missing credential
C7_Witness ==
    \E i \in active :
        ~env_key /\ pc[i] = "done" /\ outcome[i] = "ConfigurationMissing"

----------------------------------------------------------------------------
(* C8 *)

\* C8 as stated: when the scraper fails or leaves no files, the invocation
\* reports NoSamplesFound and no other failure.
C8_FailedScrapeIsNoSamplesFound ==
    \A i \in active :
        (/\ pc[i] = "done"
         /\ \/ scraper_exit[i] \in {"failed", "unlaunched"}
            \/ scraper_exit[i] = "ok" /\ blog_dir.files = <<>>)
        => outcome[i] = "NoSamplesFound"

\* C8 amended: a scraper that exits with failure ends the invocation with the
\* scraper's failure (HTTP 500) before any selection; a scraper that exits
\* successfully over an empty or nonexistent directory ends it with NoSamplesFound.
C8_ScrapeFailureReported ==
    \A i \in active :
        pc[i] = "done" =>
            /\ scraper_exit[i] = "failed" =>
                 outcome[i] = "ScraperFailed" /\ stages[i] = <<"scraper">>
            /\ (scraper_exit[i] = "ok" /\ blog_dir.files = <<>>) =>
                 outcome[i] = "NoSamplesFound"

\* the scraper failed and the invocation ended
C8_Witness ==
    \E i \in active :
        pc[i] = "done" /\ scraper_exit[i] = "failed" /\ outcome[i] = "ScraperFailed"

----------------------------------------------------------------------------
(* C9 *)

\* the data of one invocation
Local(i) == <<pc[i], req[i], files[i], idx[i], samples[i], metrics[i], response[i],
              outcome[i], result[i], stages[i], scraper_exit[i]>>

\* C9 as stated: while an invocation is about to select or is selecting, no
\* step (of any invocation) writes the corpus directory.
C9_DirectoryReadOnly ==
    [][ (\E i \in active : pc[i] \in {"collect", "loop"}) => blog_dir' = blog_dir ]_vars

\* C9 amended: every step changes the data of one invocation at most, and the
\* corpus directory is written only by an invocation's scraper step.
C9_OnlyScraperWrites ==
    [][ /\ \A i, j \in Invs : (i # j /\ Local(i)' # Local(i)) => Local(j)' = Local(j)
        /\ blog_dir' # blog_dir => \E i \in active : pc[i] = "scrape" /\ pc'[i] # "scrape"
      ]_vars

\* an invocation looping over its list of files while the directory already
\* holds a file the other invocation's scraper wrote after the list was made
C9_Witness ==
    \E i, j \in active :
        /\ i # j
        /\ pc[i] = "loop"
        /\ samples[j] # <<>>
        /\ Len(blog_dir.files) > Len(files[i])

----------------------------------------------------------------------------
(* C10 *)

\* C10: top_keywords has at most 15 entries, each a token of the lowercased
\* combined text that is no stopword and longer than 3; they are in
\* non-increasing order of frequency, equal frequencies in order of first
\* occurrence; and every candidate left out ranks after all 15 of them.
C10_TopKeywords ==
    \A i \in Invs :
        \A n \in DOMAIN metrics[i] :
            LET top == metrics[i][n].top_keywords
                toks == FindAll(Lower(JoinWithSpace([k \in DOMAIN samples[i] |-> samples[i][k].text])), 1)
                cnt(w) == Cardinality({k \in DOMAIN toks : toks[k] = w})
                first(w) == Least({k \in DOMAIN toks : toks[k] = w})
                cands == {w \in Range(toks) : w \notin stopwords /\ Len(w) > 3}
                Before(a, b) == cnt(a) > cnt(b) \/ (cnt(a) = cnt(b) /\ first(a) < first(b))
            IN /\ Len(top) <= 15
               /\ \A k \in DOMAIN top : top[k] \in cands
               /\ \A j, k \in DOMAIN top : j < k => Before(top[j], top[k])
               /\ \A w \in cands \ Range(top) :
                    Len(top) = 15 /\ \A k \in DOMAIN top : Before(top[k], w)

\* 15 keywords kept out of more candidates, the most frequent occurring twice
\* or more and first seen after a less frequent one that is kept
C10_Witness ==
    \E i \in Invs :
        \E n \in DOMAIN metrics[i] :
            LET top == metrics[i][n].top_keywords
                toks == FindAll(Lower(JoinWithSpace([k \in DOMAIN samples[i] |-> samples[i][k].text])), 1)
                cands == {w \in Range(toks) : w \notin stopwords /\ Len(w) > 3}
            IN /\ Len(top) = 15
               /\ Cardinality(cands) > 15
               /\ Cardinality({k \in DOMAIN toks : toks[k] = top[1]}) >= 2
               /\ toks[1] \in Range(top) /\ toks[1] # top[1]

====
